---- MODULE Spec2Model ----
(***************************************************************************)
(* Model of the DeepBook expired-order cleanup bot: the cursor pagination  *)
(* loops (retrieveAllPools, getAllDFPages), the per-pool reconstruction    *)
(* (retrieveExpiredOrders, getOrders, chunks), the p-limit limiter, the    *)
(* batch builder (createCleanUpTransaction) and main.                      *)
(*                                                                         *)
(* One action is one resumption of an async function: the arrival of the   *)
(* response (or the rejection) of the remote call it awaits, followed by   *)
(* all the synchronous code up to the next await, the next request issued  *)
(* included.                                                               *)
(***************************************************************************)
EXTENDS Integers, Sequences, FiniteSets, TLC

VARIABLES
  ledger,   \* the remote ledger the run reads; it does not change in a run
  pc,       \* main: "events", "gather", "inspect", "done", "failed"
  evq,      \* retrieveAllPools: its pagination loop
  allPools, \* the PoolCreated records retrieveAllPools returned
  pool,     \* pool[p]: the retrieveExpiredOrders call of allPools[p]
  streams,  \* the tasks handed to limit(), in the order of the calls
  queue,    \* p-limit: the tasks waiting for a slot, first in first out
  active,   \* p-limit: activeCount
  tx,       \* the TransactionBlock: its moveCall commands, in order
  inspects, \* the transaction blocks passed to devInspectTransactionBlock
  rebate,   \* the rebate createCleanUpTransaction returned
  faults,   \* transport failures the remote has answered with so far
  df,       \* one getAllDFPages call against a stub source (pagination specs)
  dfLog,    \* the cursors the stub source was sent, in order (first MaxLog)
  dfTurn    \* the parity of the number of requests the stub source was sent

mainVars == <<ledger, pc, evq, allPools, pool, streams, queue, active, tx,
              inspects, rebate, faults>>
vars == <<ledger, pc, evq, allPools, pool, streams, queue, active, tx,
          inspects, rebate, faults, df, dfLog, dfTurn>>

\* ---------------------------------------------------------------- bounds
MaxPages == 3       \* pages of a stub paged source
MaxPageLen == 2     \* items of one page of a stub paged source

\* ---------------------------------------------------------------- helpers
RECURSIVE Flatten(_)
Flatten(ss) == IF ss = <<>> THEN <<>> ELSE Head(ss) \o Flatten(Tail(ss))

RECURSIVE SumSeq(_)
SumSeq(s) == IF s = <<>> THEN 0 ELSE Head(s) + SumSeq(Tail(s))

Range(s) == { s[i] : i \in 1..Len(s) }

Min(a, b) == IF a < b THEN a ELSE b

\* F of the value of x: x is evaluated once, whatever the uses F makes of it
Bind(x, F(_)) == CHOOSE r \in { F(v) : v \in {x} } : TRUE

\* ------------------------------------------------------------ object ids
\* kind, pool, side, price level, position in the level's queue
Id(k, p, s, i, j) == [k |-> k, p |-> p, s |-> s, i |-> i, j |-> j]
NoId == Id("none", 0, 0, 0, 0)

\* ------------------------------------------------------- paged listings
\* A paged source is [pages, tail]: the request without a cursor is answered
\* by pages[1], the request with cursor c by pages[c+1]; a request past the
\* last page is answered by an empty page whose flag is the source's tail.
NoCursor == 0

SourcePage(src, cursor) ==
  IF cursor < Len(src.pages)
    THEN src.pages[cursor + 1]
    ELSE [data |-> <<>>, hasNextPage |-> src.tail, nextCursor |-> cursor]

\* let page = await client.getDynamicFields({ parentId })  -- the request sent
FetchStart(src) ==
  [src |-> src, req |-> NoCursor, data |-> <<>>, st |-> "await"]

\* mutant: the follow-up request carries no cursor
FollowUpCursorStale(page) == NoCursor

\* cursor: page.nextCursor
FollowUpCursor(page) == page.nextCursor

\* mutant: a do-while loop, the second request sent whatever the first flag
FetchStepEager(f) ==
  LET page == SourcePage(f.src, f.req)
      data == f.data \o page.data
  IN IF page.hasNextPage \/ f.req = NoCursor
       THEN [f EXCEPT !.data = data, !.req = page.nextCursor]
       ELSE [f EXCEPT !.data = data, !.st = "done"]

\* One response of the loop: data gets the page's items, then the while
\* condition decides between the follow-up request and the return.
FetchStep(f) ==
  LET page == SourcePage(f.src, f.req)
      data == f.data \o page.data
  IN IF page.hasNextPage
       THEN [f EXCEPT !.data = data, !.req = FollowUpCursor(page)]
       ELSE [f EXCEPT !.data = data, !.st = "done"]

\* the request in flight rejects: the loop throws
FetchFail(f) == [f EXCEPT !.st = "failed"]

\* return data.filter((node) => node.objectId !== undefined)
Undefined == Id("undefined", 0, 0, 0, 0)
DFResult(f) == SelectSeq(f.data, LAMBDA node : node.objectId # Undefined)


\* ------------------------------------------------------------ the ledger
\* ledger.pools[p] = [tag, asks, bids]: the payload tag of the pool object
\* ("moveObject", "package", or "none" for an object that does not exist) and
\* the price levels of each side; a level is [out, orders] and an order is
\* [out, expire, owner], out being what a lookup of its entry answers:
\* "ok" (a moveObject payload), "package" (a payload of another kind) or
\* "gone" (a per-id error: the object was deleted after it was listed).
\* ledger.limit is the page size of the remote's listings, ledger.now the
\* reading of the clock, ledger.faults the number of calls the remote may
\* answer with a transport failure in the run.
Asks == 0
Bids == 1

Side(p, s) == IF s = Asks THEN ledger.pools[p].asks ELSE ledger.pools[p].bids

\* The honest pages of a listing: limit items a page, the flag set on every
\* page but the last, the cursor the number of pages served so far.
Paginate(items, limit) ==
  LET n == IF Len(items) = 0 THEN 1 ELSE (Len(items) + limit - 1) \div limit
  IN [pages |-> [k \in 1..n |->
                   [data |-> SubSeq(items, (k - 1) * limit + 1,
                                    Min(k * limit, Len(items))),
                    hasNextPage |-> k < n,
                    nextCursor |-> k]],
      tail |-> FALSE]

\* client.queryEvents({ MoveEventType: PoolCreated }): one event per pool
EventSource ==
  Paginate([p \in 1..Len(ledger.pools) |-> [bcs |-> p]], ledger.limit)

\* bcs.de('PoolCreated', fromB58(event.bcs))
DecodePoolCreated(event) ==
  [pool_id |-> event.bcs,
   base_asset |-> <<"base", event.bcs>>,
   quote_asset |-> <<"quote", event.bcs>>]

\* client.getDynamicFields({ parentId }): the entries of a leaf table or of
\* the order queue of a price level
Listing(parent) ==
  LET lv == Side(parent.p, parent.s)
      n == IF parent.k = "leaves" THEN Len(lv) ELSE Len(lv[parent.i].orders)
  IN Paginate(
       [x \in 1..n |->
          [objectId |-> IF parent.k = "leaves"
                          THEN Id("leaf", parent.p, parent.s, x, 0)
                          ELSE Id("node", parent.p, parent.s, parent.i, x)]],
       ledger.limit)

\* bcs.de('Pool', ...): the ids of the two leaf tables
DecodePool(p) ==
  [asks |-> [leaves |-> [id |-> Id("leaves", p, Asks, 0, 0)]],
   bids |-> [leaves |-> [id |-> Id("leaves", p, Bids, 0, 0)]]]

\* the decoded values: undefined, a TickLevel, an Order
UndefTick == [def |-> FALSE, open_orders |-> [id |-> NoId]]
UndefOrder == [def |-> FALSE, order_id |-> <<>>, owner |-> <<>>,
               expire_timestamp |-> 0]

TickLevelOf(id) ==
  [def |-> TRUE, open_orders |-> [id |-> Id("queue", id.p, id.s, id.i, 0)]]

OrderOf(id) ==
  LET o == Side(id.p, id.s)[id.i].orders[id.j]
  IN [def |-> TRUE, order_id |-> <<id.p, id.s, id.i, id.j>>,
      owner |-> o.owner, expire_timestamp |-> o.expire]

Outcome(id) ==
  IF id.k = "leaf" THEN Side(id.p, id.s)[id.i].out
  ELSE Side(id.p, id.s)[id.i].orders[id.j].out

\* client.multiGetObjects({ ids, options: { showBcs: true } }): one response
\* per id, in the order of the ids
MultiGetObjects(ids) ==
  [x \in 1..Len(ids) |->
     [id |-> ids[x],
      error |-> Outcome(ids[x]) = "gone",
      dataType |-> IF Outcome(ids[x]) = "ok" THEN "moveObject" ELSE "package"]]

\* ------------------------------------------------------ pure functions
ChunkSize == 50

\* mutant: Math.floor, the ids after the last full chunk are left out
chunksFloor(data, size) ==
  [c \in 1..(Len(data) \div size) |->
     SubSeq(data, (c - 1) * size + 1, c * size)]

\* Array.from(new Array(Math.ceil(data.length / size)),
\*            (_, i) => data.slice(i * size, i * size + size))
chunks(data, size) ==
  [c \in 1..((Len(data) + size - 1) \div size) |->
     SubSeq(data, (c - 1) * size + 1, Min(c * size, Len(data)))]

\* mutant: whatever payload comes without an error is decoded
TickOfResponseAnyPayload(r) ==
  IF ~r.error THEN TickLevelOf(r.id) ELSE UndefTick

\* the callback of responses.map in the tick-level loop
TickOfResponse(r) ==
  IF ~r.error
    THEN IF r.dataType = "moveObject" THEN TickLevelOf(r.id) ELSE UndefTick
    ELSE UndefTick

\* mutant: the response is decoded without a look at its error
OrderOfResponseStale(r) == OrderOf(r.id)

\* the callback of responses.map in getOrders
OrderOfResponse(r) ==
  IF ~r.error
    THEN IF r.dataType = "moveObject" THEN OrderOf(r.id) ELSE UndefOrder
    ELSE UndefOrder

MapSeq(s, F(_)) == [x \in 1..Len(s) |-> F(s[x])]

\* mutant: an order that expires at this very reading of the clock is kept
IsExpiredStrict(order) == order.expire_timestamp < ledger.now

\* orders.filter((order) => order.expire_timestamp <= Date.now())
IsExpired(order) == order.expire_timestamp <= ledger.now

\* parseInt of a string of decimal digits
RECURSIVE ParseInt(_)
ParseInt(str) ==
  IF str = <<>> THEN 0
  ELSE 10 * ParseInt(SubSeq(str, 1, Len(str) - 1)) + str[Len(str)]

\* mutant: the owners are listed from the last order to the first
MoveCallOwnersReversed(poolOrder) ==
  LET n == Len(poolOrder.expiredOrders)
  IN [target |-> "0xdee9::clob_v2::clean_up_expired_orders",
      pool |-> poolOrder.pool.pool_id,
      clock |-> "0x6",
      orderIds |-> MapSeq(poolOrder.expiredOrders, LAMBDA o : o.order_id),
      orderOwners |-> [x \in 1..n |-> poolOrder.expiredOrders[n + 1 - x].owner],
      typeArguments |-> <<poolOrder.pool.base_asset, poolOrder.pool.quote_asset>>]

\* tx.moveCall({ target, arguments, typeArguments }) for one poolOrder
MoveCall(poolOrder) ==
  [target |-> "0xdee9::clob_v2::clean_up_expired_orders",
   pool |-> poolOrder.pool.pool_id,
   clock |-> "0x6",
   orderIds |-> MapSeq(poolOrder.expiredOrders, LAMBDA o : o.order_id),
   orderOwners |-> MapSeq(poolOrder.expiredOrders, LAMBDA o : o.owner),
   typeArguments |-> <<poolOrder.pool.base_asset, poolOrder.pool.quote_asset>>]

\* the for loop of createCleanUpTransaction: the commands of tx
BuildTx(poolOrders) == MapSeq(poolOrders, MoveCall)

\* mutant: the computation cost is not charged
RebateOfStorage(costSummary) ==
  ParseInt(costSummary.storageRebate) - ParseInt(costSummary.storageCost)

\* parseInt(storageRebate) - parseInt(storageCost) - parseInt(computationCost)
Rebate(costSummary) ==
  ParseInt(costSummary.storageRebate) - ParseInt(costSummary.storageCost)
    - ParseInt(costSummary.computationCost)

\* ------------------------------------------------- p-limit: limit(fn)
LimitConcurrency == 5

NoFetch == [src |-> [pages |-> <<>>, tail |-> FALSE], req |-> NoCursor,
            data |-> <<>>, st |-> "idle"]

\* The state the handlers of the pools and of the limiter work on.
World == [pool |-> pool, streams |-> streams, queue |-> queue,
          active |-> active]

\* run: activeCount++, then fn(): getAllDFPages sends its first request
Run(w0, s) ==
  Bind(w0, LAMBDA w :
  [w EXCEPT !.active = @ + 1,
            !.streams[s].st = "running",
            !.streams[s].f = FetchStart(Listing(w.streams[s].parent))])

\* mutant: a queued task starts whatever the number of running ones
MayStartUncapped(w) == w.queue # <<>>

\* whether a task leaves the queue: activeCount < concurrency && queue.size > 0
MayStart(w) == w.active < LimitConcurrency /\ w.queue # <<>>

\* enqueue's deferred start, once for every task queued
RECURSIVE Drain(_)
Drain(w0) ==
  Bind(w0, LAMBDA w :
  IF MayStart(w)
    THEN Drain(Run([w EXCEPT !.queue = Tail(@)], Head(w.queue)))
    ELSE w)

\* mutant: the slot is given back and the queue is left alone
ReleaseOnly(w) == [w EXCEPT !.active = @ - 1]

\* next: activeCount--, and the head of the queue runs
Release(w0) ==
  Bind(w0, LAMBDA w :
  LET w1 == [w EXCEPT !.active = @ - 1]
  IN IF w1.queue # <<>>
       THEN Run([w1 EXCEPT !.queue = Tail(@)], Head(w1.queue))
       ELSE w1)

\* limit(() => getAllDFPages(tickLevel.open_orders.id).then(...)) pushed on
\* orderIdsPromises
Limit(w0, p, tickLevel) ==
  Bind(w0, LAMBDA w :
  LET s == Len(w.streams) + 1
  IN [w EXCEPT !.streams = Append(@, [pool |-> p,
                                      parent |-> tickLevel.open_orders.id,
                                      st |-> "queued", f |-> NoFetch,
                                      ids |-> <<>>]),
               !.queue = Append(@, s),
               !.pool[p].promises = Append(@, s)])

\* ------------------------------------------- retrieveExpiredOrders(poolId)
\* pc of a call: the remote call it awaits ("getObject", "asks", "bids",
\* "ticks", "levels" for Promise.all(orderIdsPromises), "orders"), "done"
\* once it returned, "failed" once it threw err while at pc at.  sent lists
\* its multiGetObjects calls with the number of ids of each, rank is its
\* place among the calls of the run in the order in which they returned.
NewCall ==
  [pc |-> "getObject", err |-> "none", at |-> "none", f |-> NoFetch,
   asks |-> <<>>,
   ids |-> <<>>, ck |-> 0, tickLevels |-> <<>>, promises |-> <<>>,
   orderIds |-> <<>>, result |-> <<>>, orders |-> <<>>, expired |-> <<>>,
   sent |-> <<>>, rank |-> 0]

Throw(w0, p, err) ==
  Bind(w0, LAMBDA w :
  [w EXCEPT !.pool[p].pc = "failed", !.pool[p].err = err,
            !.pool[p].at = w.pool[p].pc, !.pool[p].f = NoFetch])

\* return expiredOrders
Return(w0, p) ==
  Bind(w0, LAMBDA w :
  LET orders == SelectSeq(w.pool[p].result, LAMBDA o : o # UndefOrder)
  IN [w EXCEPT !.pool[p].pc = "done",
               !.pool[p].rank =
                  1 + Cardinality({ q \in 1..Len(w.pool) : w.pool[q].pc = "done" }),
               !.pool[p].orders = orders,
               !.pool[p].expired = SelectSeq(orders, IsExpired)])

\* a multiGetObjects call for chunk c of a loop is sent
Send(w0, p, phase, c) ==
  Bind(w0, LAMBDA w :
  [w EXCEPT !.pool[p].pc = phase, !.pool[p].ck = c,
            !.pool[p].sent =
               Append(@, [phase |-> phase, ck |-> c,
                          n |-> Len(chunks(IF phase = "ticks"
                                             THEN w.pool[p].ids
                                             ELSE w.pool[p].orderIds,
                                           ChunkSize)[c])])])

\* const orders = await getOrders(orderIds): the loop starts
GetOrders(w0, p, orderIds) ==
  Bind(w0, LAMBDA w :
  LET w1 == [w EXCEPT !.pool[p].orderIds = orderIds, !.pool[p].result = <<>>]
  IN IF chunks(orderIds, ChunkSize) = <<>>
       THEN Return(w1, p)
       ELSE Send(w1, p, "orders", 1))

\* await Promise.all(orderIdsPromises): it rejects with the first rejection
\* and resolves once every task has resolved
AwaitLevels(w0, p) ==
  Bind(w0, LAMBDA w :
  LET mine == w.pool[p].promises
  IN IF w.pool[p].pc # "levels" THEN w
     ELSE IF \E k \in 1..Len(mine) : w.streams[mine[k]].st = "failed"
       THEN Throw(w, p, "TransportError")
     ELSE IF \A k \in 1..Len(mine) : w.streams[mine[k]].st = "done"
       THEN GetOrders(w, p,
              Flatten([k \in 1..Len(mine) |-> w.streams[mine[k]].ids]))
     ELSE w)

RECURSIVE LimitEach(_, _, _)
LimitEach(w0, p, levels) ==
  Bind(w0, LAMBDA w :
  IF levels = <<>> THEN w
  ELSE LimitEach(Limit(w, p, Head(levels)), p, Tail(levels)))

\* the loop over tickLevels.filter(defined), then Promise.all
StartLevels(w0, p) ==
  Bind(w0, LAMBDA w :
  LET defined == SelectSeq(w.pool[p].tickLevels, LAMBDA t : t # UndefTick)
      w1 == Drain(LimitEach(w, p, defined))
  IN AwaitLevels([w1 EXCEPT !.pool[p].pc = "levels"], p))

\* for (const chunk of chunks(ids, 50)): the loop starts
StartTicks(w0, p, ids) ==
  Bind(w0, LAMBDA w :
  LET w1 == [w EXCEPT !.pool[p].ids = ids, !.pool[p].tickLevels = <<>>]
  IN IF chunks(ids, ChunkSize) = <<>>
       THEN StartLevels(w1, p)
       ELSE Send(w1, p, "ticks", 1))

\* ------------------------------------------------------------------ main
NoRebate == <<>>

\* mutant: the pairs from the last pool to the first
AllExpiredReversed(pools, calls) ==
  [p \in 1..Len(pools) |->
     [pool |-> pools[Len(pools) + 1 - p],
      expiredOrders |-> calls[Len(pools) + 1 - p].expired]]

\* (await Promise.all(allExpiredOrdersPromises)).flat(): one pair per pool,
\* in the order of allPools
AllExpired(pools, calls) ==
  [p \in 1..Len(pools) |->
     [pool |-> pools[p], expiredOrders |-> calls[p].expired]]

\* await Promise.all(allExpiredOrdersPromises), then
\* createCleanUpTransaction up to its await of devInspectTransactionBlock
Gathered(calls) == \A p \in 1..Len(calls) : calls[p].pc = "done"
Rejected(calls) == \E p \in 1..Len(calls) : calls[p].pc = "failed"

\* mutant: Promise.allSettled, the failed calls passed on with the others
MainAfterSettled(pcNow, pools, calls) ==
  IF pcNow = "gather"
       /\ \A p \in 1..Len(calls) : calls[p].pc \in {"done", "failed"}
    THEN /\ pc' = "inspect"
         /\ tx' = BuildTx(AllExpired(pools, calls))
         /\ inspects' = Append(inspects, tx')
  ELSE /\ pc' = pcNow
       /\ UNCHANGED <<tx, inspects>>

\* mutant: Promise.any, the batch is built once a first call has returned
MainAfterAny(pcNow, pools, calls) ==
  IF pcNow = "gather" /\ Rejected(calls)
    THEN /\ pc' = "failed"
         /\ UNCHANGED <<tx, inspects>>
  ELSE IF pcNow = "gather" /\ \E p \in 1..Len(calls) : calls[p].pc = "done"
    THEN /\ pc' = "inspect"
         /\ tx' = BuildTx(AllExpired(pools, calls))
         /\ inspects' = Append(inspects, tx')
  ELSE /\ pc' = pcNow
       /\ UNCHANGED <<tx, inspects>>

MainAfter(pcNow, pools, calls) ==
  IF pcNow = "gather" /\ Rejected(calls)
    THEN /\ pc' = "failed"
         /\ UNCHANGED <<tx, inspects>>
  ELSE IF pcNow = "gather" /\ Gathered(calls)
    THEN /\ pc' = "inspect"
         /\ tx' = BuildTx(AllExpired(pools, calls))
         /\ inspects' = Append(inspects, tx')
  ELSE /\ pc' = pcNow
       /\ UNCHANGED <<tx, inspects>>

\* the handlers' result written back
Commit(w0) ==
  \E w \in {w0} :
    /\ pool' = w.pool
    /\ streams' = w.streams
    /\ queue' = w.queue
    /\ active' = w.active
    /\ MainAfter(pc, allPools, w.pool)
    /\ UNCHANGED <<ledger, evq, allPools, rebate, df, dfLog, dfTurn>>

\* ---------------------------------------------------------------- actions
\* a response of client.queryEvents; after the last one main starts one
\* retrieveExpiredOrders call per pool, each sending its getObject
EventsResponse ==
  /\ pc = "events"
  /\ evq.st = "await"
  /\ evq' = FetchStep(evq)
  /\ IF evq'.st = "done"
       THEN /\ allPools' = MapSeq(evq'.data, DecodePoolCreated)
            /\ pool' = [p \in 1..Len(evq'.data) |-> NewCall]
            /\ MainAfter("gather", allPools', pool')
       ELSE UNCHANGED <<allPools, pool, pc, tx, inspects>>
  /\ UNCHANGED <<ledger, streams, queue, active, rebate, faults, df, dfLog, dfTurn>>

EventsReject ==
  /\ pc = "events"
  /\ evq.st = "await"
  /\ faults < ledger.faults
  /\ evq' = FetchFail(evq)
  /\ pc' = "failed"
  /\ faults' = faults + 1
  /\ UNCHANGED <<ledger, allPools, pool, streams, queue, active, tx, inspects,
                 rebate, df, dfLog, dfTurn>>

\* const poolData = pool.data?.bcs!; switch (poolData.dataType)
OnPoolObject(w0, p, tag) ==
  Bind(w0, LAMBDA w :
  IF tag = "none" THEN Throw(w, p, "TypeError")
  ELSE IF tag = "moveObject"
    THEN [w EXCEPT !.pool[p].pc = "asks",
                   !.pool[p].f = FetchStart(Listing(
                      DecodePool(allPools[p].pool_id).asks.leaves.id))]
  ELSE Throw(w, p, "InvalidPoolData"))

PoolObject(p) ==
  /\ pool[p].pc = "getObject"
  /\ Commit(OnPoolObject(World, p, ledger.pools[allPools[p].pool_id].tag))
  /\ UNCHANGED faults

\* const asks = await getAllDFPages(pool.asks.leaves.id)
OnAsksPage(w0, p) ==
  Bind(w0, LAMBDA w :
  LET f == FetchStep(w.pool[p].f)
  IN IF f.st = "done"
       THEN [w EXCEPT !.pool[p].asks = DFResult(f),
                      !.pool[p].pc = "bids",
                      !.pool[p].f = FetchStart(Listing(
                         DecodePool(allPools[p].pool_id).bids.leaves.id))]
       ELSE [w EXCEPT !.pool[p].f = f])

PoolAsks(p) ==
  /\ pool[p].pc = "asks"
  /\ Commit(OnAsksPage(World, p))
  /\ UNCHANGED faults

\* mutant: the ids of the bids side alone
OnBidsPageOnly(w, p) ==
  LET f == FetchStep(w.pool[p].f)
  IN IF f.st = "done"
       THEN StartTicks([w EXCEPT !.pool[p].f = NoFetch], p,
                       MapSeq(DFResult(f), LAMBDA bid : bid.objectId))
       ELSE [w EXCEPT !.pool[p].f = f]

\* const bids = await getAllDFPages(pool.bids.leaves.id);
\* const ids = [...bids, ...asks].map((bid) => bid.objectId)
OnBidsPage(w0, p) ==
  Bind(w0, LAMBDA w :
  LET f == FetchStep(w.pool[p].f)
  IN IF f.st = "done"
       THEN StartTicks([w EXCEPT !.pool[p].f = NoFetch], p,
                       MapSeq(DFResult(f) \o w.pool[p].asks,
                              LAMBDA bid : bid.objectId))
       ELSE [w EXCEPT !.pool[p].f = f])

PoolBids(p) ==
  /\ pool[p].pc = "bids"
  /\ Commit(OnBidsPage(World, p))
  /\ UNCHANGED faults

\* mutant: the streams are started after the first chunk of leaf ids
OnTicksChunkFirst(w, p) ==
  LET cks == chunks(w.pool[p].ids, ChunkSize)
      c == w.pool[p].ck
  IN StartLevels([w EXCEPT !.pool[p].tickLevels =
                     @ \o MapSeq(MultiGetObjects(cks[c]), TickOfResponse)], p)

\* tickLevels.push(...(await client.multiGetObjects(chunk).then(map)))
OnTicksChunk(w0, p) ==
  Bind(w0, LAMBDA w :
  LET cks == chunks(w.pool[p].ids, ChunkSize)
      c == w.pool[p].ck
      w1 == [w EXCEPT !.pool[p].tickLevels =
                         @ \o MapSeq(MultiGetObjects(cks[c]), TickOfResponse)]
  IN IF c < Len(cks) THEN Send(w1, p, "ticks", c + 1)
     ELSE StartLevels(w1, p))

PoolTicks(p) ==
  /\ pool[p].pc = "ticks"
  /\ Commit(OnTicksChunk(World, p))
  /\ UNCHANGED faults

\* result.push(...(await client.multiGetObjects(chunk).then(map)))
OnOrdersChunk(w0, p) ==
  Bind(w0, LAMBDA w :
  LET cks == chunks(w.pool[p].orderIds, ChunkSize)
      c == w.pool[p].ck
      w1 == [w EXCEPT !.pool[p].result =
                         @ \o MapSeq(MultiGetObjects(cks[c]), OrderOfResponse)]
  IN IF c < Len(cks) THEN Send(w1, p, "orders", c + 1)
     ELSE Return(w1, p))

PoolOrders(p) ==
  /\ pool[p].pc = "orders"
  /\ Commit(OnOrdersChunk(World, p))
  /\ UNCHANGED faults

\* mutant: a failed chunk lookup is sent again
OnRejectRetry(w, p) ==
  IF w.pool[p].pc \in {"ticks", "orders"}
    THEN Send(w, p, w.pool[p].pc, w.pool[p].ck)
    ELSE Throw(w, p, "TransportError")

\* the remote call a retrieveExpiredOrders call awaits rejects
OnReject(w, p) == Throw(w, p, "TransportError")

PoolReject(p) ==
  /\ pool[p].pc \in {"getObject", "asks", "bids", "ticks", "orders"}
  /\ faults < ledger.faults
  /\ Commit(OnReject(World, p))
  /\ faults' = faults + 1

\* a response of the getAllDFPages call of a task of the limiter; the last
\* one resolves the task with data.map((node) => node.objectId)
OnStreamPage(w0, s) ==
  Bind(w0, LAMBDA w :
  LET f == FetchStep(w.streams[s].f)
  IN IF f.st = "done"
       THEN AwaitLevels(
              Release([w EXCEPT !.streams[s].st = "done",
                                !.streams[s].f = NoFetch,
                                !.streams[s].ids =
                                   MapSeq(DFResult(f),
                                          LAMBDA node : node.objectId)]),
              w.streams[s].pool)
       ELSE [w EXCEPT !.streams[s].f = f])

StreamResponse(s) ==
  /\ streams[s].st = "running"
  /\ Commit(OnStreamPage(World, s))
  /\ UNCHANGED faults

OnStreamReject(w0, s) ==
  Bind(w0, LAMBDA w :
  AwaitLevels(Release([w EXCEPT !.streams[s].st = "failed",
                                !.streams[s].f = NoFetch]),
              w.streams[s].pool))

StreamReject(s) ==
  /\ streams[s].st = "running"
  /\ faults < ledger.faults
  /\ Commit(OnStreamReject(World, s))
  /\ faults' = faults + 1

\* the gasUsed of the simulation: the remote writes each amount as a string
\* of decimal digits
RECURSIVE Digits(_)
Digits(n) == IF n < 10 THEN <<n>> ELSE Append(Digits(n \div 10), n % 10)

CostValues == {0, 50, 100, 300}
CostStrings == { Digits(v) : v \in CostValues }
CostSummaries ==
  [storageRebate : CostStrings, storageCost : CostStrings,
   computationCost : CostStrings]

InspectResponse ==
  /\ pc = "inspect"
  /\ \E costSummary \in CostSummaries :
       rebate' = <<[gasUsed |-> costSummary, rebate |-> Rebate(costSummary)]>>
  /\ pc' = "done"
  /\ UNCHANGED <<ledger, evq, allPools, pool, streams, queue, active, tx,
                 inspects, faults, df, dfLog, dfTurn>>

InspectReject ==
  /\ pc = "inspect"
  /\ faults < ledger.faults
  /\ pc' = "failed"
  /\ faults' = faults + 1
  /\ UNCHANGED <<ledger, evq, allPools, pool, streams, queue, active, tx,
                 inspects, rebate, df, dfLog, dfTurn>>

Next ==
  \/ EventsResponse
  \/ EventsReject
  \/ \E p \in 1..Len(pool) : PoolObject(p)
  \/ \E p \in 1..Len(pool) : PoolAsks(p)
  \/ \E p \in 1..Len(pool) : PoolBids(p)
  \/ \E p \in 1..Len(pool) : PoolTicks(p)
  \/ \E p \in 1..Len(pool) : PoolOrders(p)
  \/ \E p \in 1..Len(pool) : PoolReject(p)
  \/ \E s \in 1..Len(streams) : StreamResponse(s)
  \/ \E s \in 1..Len(streams) : StreamReject(s)
  \/ InspectResponse
  \/ InspectReject

\* ------------------------------------------------------------ ledgers
MaxPools == 2       \* pools of a ledger built from the pool shapes
MaxFaults == 1      \* transport failures of a run on such a ledger
PageLimit == 2      \* entries of one page of the remote's listings

Order(out, expire) == [out |-> out, expire |-> expire, owner |-> <<"owner", expire>>]
Level(out, orders) == [out |-> out, orders |-> orders]
Pool(tag, asks, bids) == [tag |-> tag, asks |-> asks, bids |-> bids]

Clock == 2

PoolShapes ==
  { Pool("package", <<>>, <<>>),
    Pool("none", <<>>, <<>>),
    Pool("moveObject", <<>>, <<>>),
    Pool("moveObject",
         <<Level("ok", <<Order("ok", Clock - 1), Order("ok", Clock + 1)>>)>>,
         <<Level("ok", <<Order("ok", Clock)>>)>>),
    Pool("moveObject",
         <<Level("gone", <<>>),
           Level("ok", <<Order("gone", Clock - 1), Order("ok", Clock - 1),
                         Order("package", Clock - 1)>>)>>,
         <<Level("package", <<>>)>>) }

SmallLedgers ==
  { [pools |-> ps, limit |-> PageLimit, now |-> Clock, faults |-> MaxFaults] :
      ps \in UNION { [1..n -> PoolShapes] : n \in 1..MaxPools } }

\* A pool of WideLevels price levels a side, one order each.
WideLevels == 3     \* price levels a side of a wide pool
WidePool ==
  Pool("moveObject",
       [i \in 1..WideLevels |-> Level("ok", <<Order("ok", Clock - 1)>>)],
       [i \in 1..WideLevels |-> Level("ok", <<Order("ok", Clock + 1)>>)])

WideLedgers ==
  { [pools |-> [p \in 1..n |-> WidePool], limit |-> PageLimit, now |-> Clock,
     faults |-> 1] : n \in 1..2 }

\* A pool whose leaf ids and whose order ids both need more than one chunk:
\* ChunkSize + Overflow ask levels, all deleted but the last two, the last
\* with ChunkSize + Overflow orders of which the first was deleted.
Overflow == 1       \* ids beyond one full chunk
DeepPool ==
  LET n == ChunkSize + Overflow
  IN Pool("moveObject",
          [i \in 1..n |->
             IF i < n - 1 THEN Level("gone", <<>>)
             ELSE IF i = n - 1 THEN Level("ok", <<Order("ok", Clock)>>)
             ELSE Level("ok", [j \in 1..n |->
                                 Order(IF j = 1 THEN "gone" ELSE "ok",
                                       IF j % 2 = 0 THEN Clock ELSE Clock + 1)])],
          <<>>)

\* A pool of which nothing was deleted and whose order ids need more than
\* one chunk: two ask levels, of one and of ChunkSize + Overflow orders, and
\* one bid level of one order.
SteadyPool ==
  Pool("moveObject",
       <<Level("ok", <<Order("ok", Clock + 1)>>),
         Level("ok", [j \in 1..(ChunkSize + Overflow) |->
                        Order("ok", IF j % 2 = 0 THEN Clock ELSE Clock + 1)])>>,
       <<Level("ok", <<Order("ok", Clock - 1)>>)>>)

DeepLedgers ==
  { [pools |-> <<DeepPool>>, limit |-> ChunkSize, now |-> Clock,
     faults |-> MaxFaults],
    [pools |-> <<SteadyPool>>, limit |-> ChunkSize, now |-> Clock,
     faults |-> MaxFaults] }

\* More pools than the limiter has slots: the first with one price level of
\* one order, the others with one price level that was deleted.
FanLedgers ==
  { [pools |-> [p \in 1..(LimitConcurrency + 1) |->
                  IF p = 1
                    THEN Pool("moveObject",
                              <<Level("ok", <<Order("ok", Clock)>>)>>, <<>>)
                    ELSE Pool("moveObject", <<Level("gone", <<>>)>>, <<>>)],
     limit |-> LimitConcurrency + 1, now |-> Clock, faults |-> 0] }

\* One pool of one price level whose queue holds n orders, for the lengths
\* around the multiples of ChunkSize up to MaxChunks chunks.
MaxChunks == 3      \* chunks of the longest queue
Remainders == {0, 1, 30, ChunkSize - 1}
QueuePool(n) ==
  Pool("moveObject",
       <<Level("ok", [j \in 1..n |->
                        Order("ok", IF j % 2 = 0 THEN Clock ELSE Clock + 1)])>>,
       <<>>)

QueueLedgers ==
  { [pools |-> <<QueuePool(k * ChunkSize + d)>>, limit |-> ChunkSize,
     now |-> Clock, faults |-> 0] : k \in 0..(MaxChunks - 1), d \in Remainders }

Ledgers == SmallLedgers \cup WideLedgers \cup DeepLedgers \cup FanLedgers \cup QueueLedgers

Init ==
  /\ ledger \in Ledgers
  /\ pc = "events"
  /\ evq = FetchStart(EventSource)
  /\ allPools = <<>>
  /\ pool = <<>>
  /\ streams = <<>>
  /\ queue = <<>>
  /\ active = 0
  /\ tx = <<>>
  /\ inspects = <<>>
  /\ rebate = NoRebate
  /\ faults = 0
  /\ df = NoFetch
  /\ dfLog = <<>>
  /\ dfTurn = 0

Spec == Init /\ [][Next]_vars

\* ------------------------------- the run with every remote call answered
\* No call rejects and every pool object read is a Pool; the event loop runs
\* the continuation of every response that has arrived.
AnsweredLedgers ==
  { l \in SmallLedgers \cup WideLedgers \cup DeepLedgers \cup QueueLedgers :
      \A p \in 1..Len(l.pools) : l.pools[p].tag = "moveObject" }

InitAnswered == Init /\ ledger \in AnsweredLedgers

NextAnswered ==
  \/ EventsResponse
  \/ \E p \in 1..Len(pool) : PoolObject(p)
  \/ \E p \in 1..Len(pool) : PoolAsks(p)
  \/ \E p \in 1..Len(pool) : PoolBids(p)
  \/ \E p \in 1..Len(pool) : PoolTicks(p)
  \/ \E p \in 1..Len(pool) : PoolOrders(p)
  \/ \E s \in 1..Len(streams) : StreamResponse(s)
  \/ InspectResponse

SpecAnswered ==
  InitAnswered /\ [][NextAnswered]_vars /\ WF_vars(NextAnswered)

\* ------------------------------------------- the pagination loop alone
\* Stub sources: up to MaxPages pages of 0..MaxPageLen items numbered in
\* listing order, any flag on any page, any flag past the last page.
RECURSIVE StubPages(_, _, _)
StubPages(sizes, flags, k) ==
  IF k > Len(sizes) THEN <<>>
  ELSE LET before == SumSeq(SubSeq(sizes, 1, k - 1))
       IN <<[data |-> [i \in 1..sizes[k] |-> [objectId |-> Id("stub", 0, 0, 0, before + i)]],
             hasNextPage |-> flags[k],
             nextCursor |-> k]>> \o StubPages(sizes, flags, k + 1)

StubShapes ==
  UNION { [1..n -> (0..MaxPageLen) \X BOOLEAN] : n \in 1..MaxPages }

StubSources ==
  { [pages |-> StubPages([k \in DOMAIN sh |-> sh[k][1]],
                         [k \in DOMAIN sh |-> sh[k][2]], 1),
     tail |-> t] : sh \in StubShapes, t \in BOOLEAN }

MaxLog == MaxPages + 2
Sent(log, cursor) == IF Len(log) < MaxLog THEN Append(log, cursor) ELSE log

InitPages ==
  /\ \E src \in StubSources : df = FetchStart(src)
  /\ dfLog = <<NoCursor>>
  /\ dfTurn = 1
  /\ ledger = [pools |-> <<>>, limit |-> PageLimit, now |-> Clock, faults |-> 0]
  /\ pc = "done"
  /\ evq = NoFetch
  /\ allPools = <<>>
  /\ pool = <<>>
  /\ streams = <<>>
  /\ queue = <<>>
  /\ active = 0
  /\ tx = <<>>
  /\ inspects = <<>>
  /\ rebate = NoRebate
  /\ faults = 0

DFResponse ==
  /\ df.st = "await"
  /\ df' = FetchStep(df)
  /\ dfLog' = IF df'.st = "await" THEN Sent(dfLog, df'.req) ELSE dfLog
  /\ dfTurn' = IF df'.st = "await" THEN 1 - dfTurn ELSE dfTurn
  /\ UNCHANGED mainVars

DFReject ==
  /\ df.st = "await"
  /\ df' = FetchFail(df)
  /\ UNCHANGED <<dfLog, dfTurn, mainVars>>

NextPages == DFResponse \/ DFReject

SpecPages == InitPages /\ [][NextPages]_vars
SpecPagesFair == SpecPages /\ WF_vars(DFResponse)

\* ------------------------------------------------------ claims C1 .. C3
Calls == 1..Len(pool)
Tag(p) == ledger.pools[allPools[p].pool_id].tag

\* the multiGetObjects calls in flight
LookupsInFlight == { p \in Calls : pool[p].pc \in {"ticks", "orders"} }

\* the tasks of the limiter whose getAllDFPages call is running
StreamsRunning == { s \in 1..Len(streams) : streams[s].st = "running" }

\* C1: at most 5 multiGetObjects calls are in flight at any time, over all
\* the pools of the run.
C1_LookupsCapped == Cardinality(LookupsInFlight) <= 5

\* C2: at most 5 per-level pagination streams started through the limiter
\* run at any time, over all the pools of the run; the limiter counts them.
C2_StreamsCapped ==
  /\ Cardinality(StreamsRunning) <= 5
  /\ active = Cardinality(StreamsRunning)

\* five streams run while others wait, in a run of more than one pool
C2_Witness ==
  /\ Cardinality(StreamsRunning) = 5
  /\ queue # <<>>
  /\ \E s, t \in StreamsRunning : streams[s].pool # streams[t].pool

\* C3: the batch holds one instruction per pool with at least one expired
\* order, and none for a pool with no expired order.
C3_NoInstructionForEmptyPool ==
  inspects # <<>> =>
    /\ Len(tx) = Cardinality({ p \in Calls : pool[p].expired # <<>> })
    /\ \A k \in 1..Len(tx) : tx[k].orderIds # <<>>

\* ----------------------------------------------------- claims C4 .. C6
\* The i-th page of a source in listing order.
PageAt(src, i) == SourcePage(src, Min(i - 1, Len(src.pages)))

\* The position of the first page whose flag is false (0: there is none).
FirstFalse(src) ==
  LET idx == { i \in 1..(Len(src.pages) + 1) : ~PageAt(src, i).hasNextPage }
  IN IF idx = {} THEN 0 ELSE CHOOSE i \in idx : \A j \in idx : i <= j

\* C4: a returned pagination call holds the items of every page up to and
\* including the first page whose flag is false, in listing order; it sent
\* one request per page consumed, the first without a cursor and each later
\* one with the nextCursor of the response before it; while it runs, every
\* response before the request in flight had its flag set.
C4_PaginationComplete ==
  /\ df.st = "done" =>
       LET k == FirstFalse(df.src)
       IN /\ k > 0
          /\ DFResult(df) = Flatten([i \in 1..k |-> PageAt(df.src, i).data])
          /\ dfLog = [i \in 1..k |-> IF i = 1 THEN NoCursor
                                     ELSE PageAt(df.src, i - 1).nextCursor]
  /\ (df.st = "await" /\ Len(dfLog) < MaxLog) =>
       \A i \in 1..(Len(dfLog) - 1) :
          /\ PageAt(df.src, i).hasNextPage
          /\ dfLog[i + 1] = PageAt(df.src, i).nextCursor

\* a call that returned after three pages, the second of them empty
C4_Witness ==
  /\ df.st = "done"
  /\ Len(dfLog) = 3
  /\ PageAt(df.src, 2).data = <<>>
  /\ Len(DFResult(df)) >= 2

FirstPageEmpty == PageAt(df.src, 1).data = <<>>

\* C5 as stated: an empty first page ends the call with an empty result and
\* without a second request, whatever its flag.
C5_EmptyFirstPageAnyFlag ==
  FirstPageEmpty =>
    /\ Len(dfLog) = 1
    /\ df.st = "done" => DFResult(df) = <<>>

\* C5 amended: an empty first page whose flag is false ends the call with an
\* empty result and without a second request; with the flag set the call
\* sends the follow-up request, as after any other page.
C5_EmptyFirstPageFlagFalse ==
  /\ (FirstPageEmpty /\ ~PageAt(df.src, 1).hasNextPage) =>
       /\ Len(dfLog) = 1
       /\ df.st = "done" => DFResult(df) = <<>>
  /\ (FirstPageEmpty /\ PageAt(df.src, 1).hasNextPage /\ df.st = "done") =>
       Len(dfLog) >= 2

C5_Witness ==
  /\ FirstPageEmpty
  /\ ~PageAt(df.src, 1).hasNextPage
  /\ df.st = "done"
  /\ DFResult(df) = <<>>

\* C6: against a source of finitely many pages the call eventually returns
\* or throws, whatever the flags on and after the last page.
C6_PaginationTerminates == <>(df.st # "await")

\* ----------------------------------------------------- claims C7 .. C10
Entries(seq, v) == { x \in 1..Len(seq) : seq[x] = v }

\* C7: a per-id error never fails a call, and the lookups return the decoded
\* value of every id that was not marked, once, and nothing for a marked
\* id: a call fails only on a bad pool payload or on a transport failure;
\* each leaf id looked up so far has its tick level if it exists and
\* undefined if it was deleted, a stream is queued for exactly the existing
\* levels, and a returned call holds one order per existing order id and
\* none for a deleted one.
C7_VanishedIdsDropped ==
  \A p \in Calls :
    LET c == pool[p]
        levels == SelectSeq(c.tickLevels, LAMBDA t : t # UndefTick)
    IN /\ c.pc = "failed" => (Tag(p) # "moveObject" \/ faults > 0)
       /\ Len(c.tickLevels) <= Len(c.ids)
       /\ \A x \in 1..Len(c.tickLevels) :
            /\ Outcome(c.ids[x]) = "gone" => c.tickLevels[x] = UndefTick
            /\ Outcome(c.ids[x]) = "ok" => c.tickLevels[x] = TickLevelOf(c.ids[x])
       /\ c.pc \in {"levels", "orders", "done"} =>
            /\ Len(c.tickLevels) = Len(c.ids)
            /\ [k \in 1..Len(c.promises) |-> streams[c.promises[k]].parent]
                 = MapSeq(levels, LAMBDA t : t.open_orders.id)
       /\ c.pc = "done" =>
            \A x \in 1..Len(c.orderIds) :
              /\ Outcome(c.orderIds[x]) = "gone" =>
                   ~\E o \in Range(c.orders) :
                      o.order_id = OrderOf(c.orderIds[x]).order_id
              /\ Outcome(c.orderIds[x]) = "ok" =>
                   Cardinality(Entries(c.orders, OrderOf(c.orderIds[x]))) = 1

\* a call that returned although a leaf and an order it looked up were
\* deleted, with the orders that remain
C7_Witness ==
  \E p \in Calls :
    /\ pool[p].pc = "done"
    /\ \E x \in 1..Len(pool[p].ids) : Outcome(pool[p].ids[x]) = "gone"
    /\ \E x \in 1..Len(pool[p].orderIds) :
         Outcome(pool[p].orderIds[x]) = "gone"
    /\ pool[p].orders # <<>>

\* C8: once a retrieveExpiredOrders call has failed the run is aborted: no
\* batch is built, no simulation is requested and no rebate is computed.
C8_FailureAborts ==
  Rejected(pool) =>
    /\ pc = "failed"
    /\ tx = <<>>
    /\ inspects = <<>>
    /\ rebate = NoRebate

\* one call failed, another returned
C8_Witness ==
  \E p, q \in Calls :
    /\ pool[p].pc = "failed"
    /\ pool[q].pc = "done"
    /\ pool[q].expired # <<>>

\* C9: no chunk is looked up twice, the chunks of a loop are sent in order,
\* and a call that failed in a lookup sent nothing after the chunk that
\* failed and returned nothing.
C9_NoRetryNoPartial ==
  \A p \in Calls :
    LET c == pool[p]
    IN /\ \A i, j \in 1..Len(c.sent) : i < j => c.sent[i] # c.sent[j]
       /\ \A i \in 1..Len(c.sent) :
            c.sent[i].ck = 1 + Cardinality({ j \in 1..(i - 1) :
                                               c.sent[j].phase = c.sent[i].phase })
       /\ (c.pc = "failed" /\ c.at \in {"ticks", "orders"}) =>
            /\ c.err = "TransportError"
            /\ c.sent[Len(c.sent)].phase = c.at
            /\ c.sent[Len(c.sent)].ck = c.ck
            /\ c.orders = <<>>
            /\ c.expired = <<>>
            /\ pc = "failed"
            /\ tx = <<>>

\* the first of two chunk lookups of getOrders failed
C9_Witness ==
  \E p \in Calls :
    /\ pool[p].pc = "failed"
    /\ pool[p].at = "orders"
    /\ pool[p].ck = 1
    /\ Len(chunks(pool[p].orderIds, ChunkSize)) = 2

\* C10: a pool read that yields no moveObject payload fails the call with
\* InvalidPoolData, before any listing or lookup request of that pool.
C10_InvalidPoolData ==
  \A p \in Calls :
    (Tag(p) # "moveObject" /\ pool[p].pc # "getObject"
       /\ pool[p].err # "TransportError") =>
      /\ pool[p].pc = "failed"
      /\ pool[p].err = "InvalidPoolData"
      /\ pool[p].f = NoFetch
      /\ pool[p].sent = <<>>
      /\ pool[p].promises = <<>>

\* ---------------------------------------------------- claims C11 .. C20
PoolId(p) == allPools[p].pool_id

\* the price levels and the order queue entries of a pool of the ledger
LevelsOf(pid) ==
  UNION { { <<s, i>> : i \in 1..Len(Side(pid, s)) } : s \in {Asks, Bids} }

NodesOf(pid) ==
  UNION { { Id("node", pid, l[1], l[2], j) :
              j \in 1..Len(Side(pid, l[1])[l[2]].orders) } : l \in LevelsOf(pid) }

\* nothing of the pool was deleted or replaced since it was listed
Steady(pid) ==
  /\ \A l \in LevelsOf(pid) : Side(pid, l[1])[l[2]].out = "ok"
  /\ \A id \in NodesOf(pid) : Outcome(id) = "ok"

\* C11: a call that returned on a pool of which nothing was deleted has
\* reconstructed every order of every queue of every price level of both
\* sides exactly once: its orders, before the expiry filter, are as many as
\* the queue entries of the pool and hold each of them once.
C11_ReconstructionComplete ==
  \A p \in Calls :
    (pool[p].pc = "done" /\ Steady(PoolId(p))) =>
      /\ Len(pool[p].orders) = Cardinality(NodesOf(PoolId(p)))
      /\ \A id \in NodesOf(PoolId(p)) :
           Cardinality(Entries(pool[p].orders, OrderOf(id))) = 1

\* a returned call on such a pool with orders on both sides, whose order ids
\* took more than one chunk and one of whose queues took more than one page
C11_Witness ==
  \E p \in Calls :
    /\ pool[p].pc = "done"
    /\ Steady(PoolId(p))
    /\ Len(pool[p].orderIds) > ChunkSize
    /\ \E s \in Range(pool[p].promises) :
         Len(Listing(streams[s].parent).pages) > 1
    /\ \E o \in Range(pool[p].orders) : o.order_id[2] = Bids
    /\ \E o \in Range(pool[p].orders) : o.order_id[2] = Asks

\* C12: the expiry filter keeps exactly the reconstructed orders whose
\* expire_timestamp is at most the reading of the clock, each once and in the
\* order of the reconstruction; an order expiring at the very reading is
\* kept, one expiring a tick later is not.
C12_ExpiryFilter ==
  \A p \in Calls :
    pool[p].pc = "done" =>
      LET c == pool[p]
      IN /\ c.expired =
              SelectSeq(c.orders, LAMBDA o : o.expire_timestamp <= ledger.now)
         /\ \A x \in 1..Len(c.orders) :
              /\ c.orders[x].expire_timestamp = ledger.now =>
                   Cardinality(Entries(c.expired, c.orders[x])) = 1
              /\ c.orders[x].expire_timestamp = ledger.now + 1 =>
                   Entries(c.expired, c.orders[x]) = {}

\* a returned call with an order expiring at the reading of the clock, one
\* before it and one a tick after it
C12_Witness ==
  \E p \in Calls :
    /\ pool[p].pc = "done"
    /\ \E o \in Range(pool[p].expired) : o.expire_timestamp = ledger.now
    /\ \E o \in Range(pool[p].expired) : o.expire_timestamp < ledger.now
    /\ \E o \in Range(pool[p].orders) : o.expire_timestamp = ledger.now + 1

\* the order of the ledger an order id names
LedgerOrder(oid) == Side(oid[1], oid[2])[oid[3]].orders[oid[4]]

\* C13: every instruction of the batch names a discovered pool, the shared
\* clock object 0x6 and the base and quote types of that pool as discovered;
\* its order ids are the ids of that pool's expired orders in the order the
\* call returned them, its owners are the owners of those orders position by
\* position, and no id of it names an order of another pool or an order that
\* has not expired.
C13_InstructionContent ==
  \A k \in 1..Len(tx) :
    LET p == tx[k].pool
    IN /\ p \in Calls
       /\ tx[k].target = "0xdee9::clob_v2::clean_up_expired_orders"
       /\ tx[k].clock = "0x6"
       /\ allPools[p] = DecodePoolCreated([bcs |-> p])
       /\ tx[k].typeArguments = <<allPools[p].base_asset, allPools[p].quote_asset>>
       /\ tx[k].orderIds =
            [x \in 1..Len(pool[p].expired) |-> pool[p].expired[x].order_id]
       /\ Len(tx[k].orderOwners) = Len(tx[k].orderIds)
       /\ \A x \in 1..Len(tx[k].orderIds) :
            LET oid == tx[k].orderIds[x]
            IN /\ oid[1] = p
               /\ LedgerOrder(oid).expire <= ledger.now
               /\ tx[k].orderOwners[x] = LedgerOrder(oid).owner

\* a batch of two pools with an instruction of two orders of different
\* owners, for a pool that also holds an order that has not expired
C13_Witness ==
  /\ Len(tx) >= 2
  /\ \E k \in 1..Len(tx) :
       /\ Len(tx[k].orderIds) >= 2
       /\ tx[k].orderOwners[1] # tx[k].orderOwners[2]
       /\ Len(pool[tx[k].pool].orders) > Len(pool[tx[k].pool].expired)
       /\ \E j \in 1..Len(tx) : j # k /\ tx[j].orderIds # <<>>

\* C14: the simulation is requested at most once, only when every call and
\* every stream of the run has completed, for the one batch that holds the
\* expired orders of all the pools; a run that got to the simulation
\* requested it once, and a run that ended well has its rebate.
C14_OneBatchAfterAll ==
  /\ Len(inspects) <= 1
  /\ inspects # <<>> =>
       /\ \A p \in Calls : pool[p].pc = "done"
       /\ \A s \in 1..Len(streams) : streams[s].st = "done"
       /\ inspects[1] = tx
       /\ \A p \in Calls : \A o \in Range(pool[p].expired) :
            \E k \in 1..Len(tx) : o.order_id \in Range(tx[k].orderIds)
  /\ pc \in {"inspect", "done"} => Len(inspects) = 1
  /\ pc = "done" => rebate # NoRebate

\* a run that ended well with expired orders of two pools in its batch
C14_Witness ==
  /\ pc = "done"
  /\ Len(inspects) = 1
  /\ \E p, q \in Calls :
       p # q /\ pool[p].expired # <<>> /\ pool[q].expired # <<>>

ChunksOf(n) ==
  CHOOSE k \in 0..n : (k - 1) * ChunkSize < n /\ n <= k * ChunkSize
SizesOf(n) ==
  [k \in 1..ChunksOf(n) |->
     IF k < ChunksOf(n) THEN ChunkSize ELSE n - (ChunksOf(n) - 1) * ChunkSize]

\* the numbers of ids of the lookups a call sent in a loop
LookupSizes(c, phase) ==
  LET sent == SelectSeq(c.sent, LAMBDA m : m.phase = phase)
  IN [i \in 1..Len(sent) |-> sent[i].n]

\* C16: chunks cuts a list of n ids into ceil(n / 50) consecutive chunks that
\* together are the list, each of 50 ids but the last, which has between 1
\* and 50; a resolution loop that has ended sent one lookup per chunk, of
\* the chunk's size, and none for an empty list.
C16_ChunksPartition ==
  \A p \in Calls :
    LET c == pool[p]
        Parts(data) ==
          LET cks == chunks(data, ChunkSize)
          IN /\ Len(cks) = ChunksOf(Len(data))
             /\ Flatten(cks) = data
             /\ [k \in 1..Len(cks) |-> Len(cks[k])] = SizesOf(Len(data))
             /\ \A k \in 1..Len(cks) : Len(cks[k]) \in 1..ChunkSize
    IN /\ Parts(c.ids)
       /\ Parts(c.orderIds)
       /\ c.pc \in {"levels", "orders", "done"} =>
            LookupSizes(c, "ticks") = SizesOf(Len(c.ids))
       /\ c.pc = "done" => LookupSizes(c, "orders") = SizesOf(Len(c.orderIds))

\* 130 order ids were looked up in three calls of 50, 50 and 30 ids
C16_Witness ==
  \E p \in Calls :
    /\ pool[p].pc = "done"
    /\ Len(pool[p].orderIds) = 2 * ChunkSize + 30
    /\ LookupSizes(pool[p], "orders") = <<ChunkSize, ChunkSize, 30>>
    /\ Len(pool[p].orders) = 2 * ChunkSize + 30

\* C17: the instructions of the batch follow the order in which the pools
\* were created on the ledger, whatever the order in which the calls
\* returned, and each holds the expired orders of its own pool and no other.
C17_PairsInDiscoveryOrder ==
  inspects # <<>> =>
    \A k \in 1..Len(tx) :
      /\ tx[k].pool = k
      /\ Range(tx[k].orderIds) = { o.order_id : o \in Range(pool[k].expired) }
      /\ \A j \in 1..Len(tx) : \A oid \in Range(tx[j].orderIds) :
           (oid \in Range(tx[k].orderIds)) => j = k

\* a batch of two pools with expired orders, the call of the pool created
\* later having returned first
C17_Witness ==
  /\ inspects # <<>>
  /\ \E p, q \in Calls :
       /\ p < q
       /\ pool[p].rank > pool[q].rank
       /\ pool[p].expired # <<>>
       /\ pool[q].expired # <<>>

\* C18: when no call rejects and every pool read is a Pool, no stream is
\* left waiting or running for ever: again and again, and in the end for
\* good, every stream queued on the limiter so far has completed; and the
\* run eventually requests the simulation.
C18_StreamsComplete ==
  /\ []<>(\A s \in 1..Len(streams) : streams[s].st = "done")
  /\ <>(inspects # <<>>)

\* the simulation was requested in a run of two pools in which more streams
\* than the limiter has slots were queued, all of them completed
C18_Witness ==
  /\ inspects # <<>>
  /\ faults = 0
  /\ Len(streams) > 2 * LimitConcurrency
  /\ \A s \in 1..Len(streams) : streams[s].st = "done"
  /\ \E s, t \in 1..Len(streams) : streams[s].pool # streams[t].pool

\* the streams of a call
StreamsOf(p) == { s \in 1..Len(streams) : streams[s].pool = p }

\* C19: within a call, a stream exists only once every chunk of leaf ids
\* has been answered, an order lookup is sent only once every stream of the
\* call has completed and every leaf chunk has been answered, and at most
\* one lookup of the call is unanswered at any time.
C19_PhasesOrdered ==
  \A p \in Calls :
    LET c == pool[p]
        ticksSent == Len(LookupSizes(c, "ticks"))
        ordersSent == Len(LookupSizes(c, "orders"))
        ticksAnswered == ChunksOf(Len(c.tickLevels))
        ordersAnswered == ChunksOf(Len(c.result))
    IN /\ StreamsOf(p) # {} =>
            /\ Len(c.tickLevels) = Len(c.ids)
            /\ ticksSent = ticksAnswered
            /\ c.pc \notin {"getObject", "asks", "bids", "ticks"}
       /\ ordersSent > 0 =>
            /\ \A s \in StreamsOf(p) : streams[s].st = "done"
            /\ Len(c.tickLevels) = Len(c.ids)
            /\ ticksSent = ticksAnswered
       /\ (ticksSent - ticksAnswered) + (ordersSent - ordersAnswered) \in {0, 1}
       /\ ticksSent - ticksAnswered \in {0, 1}
       /\ ordersSent - ordersAnswered \in {0, 1}

\* a call waits for its second order lookup after two leaf lookups and two
\* streams
C19_Witness ==
  \E p \in Calls :
    /\ pool[p].pc = "orders"
    /\ Len(LookupSizes(pool[p], "ticks")) = 2
    /\ Len(LookupSizes(pool[p], "orders")) = 2
    /\ Cardinality(StreamsOf(p)) >= 2

\* the positions of a list of ids whose lookup answers a moveObject payload
Live(ids) == { x \in 1..Len(ids) : Outcome(ids[x]) = "ok" }

\* C20: an id whose lookup answers without an error a payload that is not a
\* moveObject gives no entry and fails nothing, in the leaf lookups and in
\* the order lookups: the streams of a call are as many as its leaf ids with
\* a moveObject payload, its orders as many as its order ids with one.
C20_OtherPayloadDropped ==
  \A p \in Calls :
    LET c == pool[p]
    IN /\ c.pc = "failed" => (Tag(p) # "moveObject" \/ faults > 0)
       /\ \A x \in 1..Len(c.tickLevels) :
            Outcome(c.ids[x]) = "package" => c.tickLevels[x] = UndefTick
       /\ c.pc \in {"levels", "orders", "done"} =>
            /\ Len(c.promises) = Cardinality(Live(c.ids))
            /\ \A s \in StreamsOf(p) :
                 Side(streams[s].parent.p, streams[s].parent.s)[streams[s].parent.i].out
                   = "ok"
       /\ c.pc = "done" =>
            /\ Len(c.orders) = Cardinality(Live(c.orderIds))
            /\ \A x \in 1..Len(c.orderIds) :
                 Outcome(c.orderIds[x]) = "package" =>
                   ~\E o \in Range(c.orders) :
                      o.order_id = OrderOf(c.orderIds[x]).order_id

\* a returned call that looked up a leaf id and an order id of another
\* payload kind, with the order that remains
C20_Witness ==
  \E p \in Calls :
    /\ pool[p].pc = "done"
    /\ \E x \in 1..Len(pool[p].ids) : Outcome(pool[p].ids[x]) = "package"
    /\ \E x \in 1..Len(pool[p].orderIds) :
         Outcome(pool[p].orderIds[x]) = "package"
    /\ pool[p].orders # <<>>

====
